---- MODULE Spec2Model ----
(***************************************************************************)
(* Model of the FFC Cloudflare DNS tools: enforce_standard.py,             *)
(* update_dns.py and update_pages_dns.py running against one provider      *)
(* zone.  A host name is the sequence of its labels and a record content   *)
(* the sequence of its dot- or space-separated parts, so that              *)
(* f"{name}.{zone}" is concatenation and Python's "in" and startswith are  *)
(* the sub-sequence and prefix tests.                                      *)
(***************************************************************************)
EXTENDS Integers, Sequences, FiniteSets, TLC

VARIABLES
    zone,         \* provider: the zone's records, in listing order
    nextId,       \* provider: the id the next created record gets
    faults,       \* provider: transient failures injected so far
    runs,         \* invocations started so far
    tool,         \* current invocation: "enforce" | "dns" | "pages" | "audit"
                  \* | "export" | "none"
    args,         \* current invocation: its command line
    dry_run,      \* current invocation: the mode flag
    pc,           \* current invocation: position in the program
    status,       \* "idle" | "running" | "ok" | "fail" | "usage"
    zone0,        \* the zone as it was when the invocation started
    page,         \* get_all_records: the page to request next
    requested,    \* record listings requested so far, by the page asked for
    all_records,  \* get_all_records / enforce_standard: the snapshot
    idx,          \* enforce_standard: index of the standard being ensured;
                  \* export_zone_dns_summary: index of the zone being summarised
    changes_needed, \* enforce_standard: the change counter
    todo,         \* mutating calls the current step still has to issue
    calls,        \* mutating calls issued to the provider by this invocation
    plan,         \* operations the invocation reported under dry-run
    reported,     \* per-record outcomes reported (unchanged / exists);
                  \* export_zone_dns_summary: the rows collected
    prev,         \* summary of the previous invocation of the same command
    peer          \* a second enforce_standard process on the same zone

vars == <<zone, nextId, faults, runs, tool, args, dry_run, pc, status, zone0,
          page, requested, all_records, idx, changes_needed, todo, calls,
          plan, reported, prev, peer>>

provider == <<zone, nextId, faults>>
listing == <<page, requested, all_records>>

----------------------------------------------------------------------------
(* Bounds of the model *)

MaxInit == 2      \* records in the initial zone
MaxRuns == 2      \* invocations in one behaviour
MaxFaults == 1    \* transient provider failures in one behaviour
MaxFlags == 2     \* update_pages_dns flags given in one invocation
MaxPages == 10    \* full pages held by the zone of the listing check
MaxZones == 2     \* zone names given to one export

(* Program constants *)

PerPage == 100          \* enforce_standard.get_all_records per_page
DefaultPriority == 10   \* update_dns --priority default
EnforceTtl == 1         \* enforce_standard payload ttl (auto)
DnsTtl == 120           \* update_dns A/AAAA/CNAME payload ttl
DnsAutoTtl == 1         \* update_dns MX/TXT payload ttl (auto)
PagesTtl == 300         \* update_pages_dns ttl
ExportPerPage == 100    \* export_zone_dns_summary per_page of a record listing
NoPriority == 0 - 1     \* a record without a priority field

----------------------------------------------------------------------------
(* Names and contents *)

Zone == <<"example", "org">>
PagesHost == <<"ffc", "github", "io">>
OldHost == <<"old-host", "github", "io">>
OtherHost == <<"other", "github", "io">>

M365Mx == <<"freeforcharity-org", "mail", "protection", "outlook", "com">>
SpfTxt == <<"v=spf1", "include:spf.protection.outlook.com", "-all">>
DmarcTxt == <<"v=DMARC1;", "p=none;", "rua=mailto:dmarc-rua@freeforcharity.org">>
GithubIps == << <<"185.199.108.153">>, <<"185.199.109.153">>,
                <<"185.199.110.153">>, <<"185.199.111.153">> >>
GithubIpv6 == << <<"2606:50c0:8000::153">>, <<"2606:50c0:8001::153">>,
                 <<"2606:50c0:8002::153">>, <<"2606:50c0:8003::153">> >>
OtherIp == <<"203.0.113.42">>
VerifyTxt == <<"google-site-verification=abc">>

\* rec_name = zone if name == "@" else f"{name}.{zone}"
FullName(name, z) == IF name = "@" THEN z ELSE <<name>> \o z

Www(z) == <<"www">> \o z

----------------------------------------------------------------------------
(* Sequence helpers *)

Range(s) == {s[i] : i \in 1..Len(s)}

RECURSIVE MapIds(_)
MapIds(s) == IF s = <<>> THEN <<>> ELSE <<Head(s).id>> \o MapIds(Tail(s))

Min(a, b) == IF a < b THEN a ELSE b

----------------------------------------------------------------------------
(* The provider *)

Rec(id, type, name, content, ttl, priority, proxied) ==
    [id |-> id, type |-> type, name |-> name, content |-> content,
     ttl |-> ttl, priority |-> priority, proxied |-> proxied]

Payload(type, name, content, ttl, priority, proxied) ==
    [type |-> type, name |-> name, content |-> content,
     ttl |-> ttl, priority |-> priority, proxied |-> proxied]

NoPayload == Payload("", <<>>, <<>>, 0, NoPriority, FALSE)

\* One mutating call (or, under dry-run, one reported operation).
Op(kind, id, p) == [kind |-> kind, id |-> id, payload |-> p]

AddressTypes == {"A", "AAAA"}

\* The provider refuses a CNAME next to an A/AAAA record of the same name.
Conflicts(z, p) ==
    \E i \in 1..Len(z) :
        /\ z[i].name = p.name
        /\ \/ p.type \in AddressTypes /\ z[i].type = "CNAME"
           \/ p.type = "CNAME" /\ z[i].type \in AddressTypes

HasId(z, id) == \E i \in 1..Len(z) : z[i].id = id

\* POST /zones/{zone_id}/dns_records
Created(z, id, p) ==
    Append(z, Rec(id, p.type, p.name, p.content, p.ttl, p.priority, p.proxied))

\* PUT / PATCH /zones/{zone_id}/dns_records/{id}: every field the tools send
\* replaces the record's; the tools never send a priority on these paths.
Updated(z, id, p) ==
    [i \in 1..Len(z) |->
        IF z[i].id = id
        THEN Rec(id, p.type, p.name, p.content, p.ttl, z[i].priority, p.proxied)
        ELSE z[i]]

\* DELETE /zones/{zone_id}/dns_records/{id}
Deleted(z, id) ==
    LET Kept(r) == r.id # id IN SelectSeq(z, Kept)

\* Whether the provider accepts the call on zone z.
Accepts(z, op) ==
    CASE op.kind = "Create" -> ~Conflicts(z, op.payload)
      [] op.kind = "Update" -> HasId(z, op.id)
      [] op.kind = "Delete" -> HasId(z, op.id)

\* The zone after an accepted call.
Applied(z, id, op) ==
    CASE op.kind = "Create" -> Created(z, id, op.payload)
      [] op.kind = "Update" -> Updated(z, op.id, op.payload)
      [] op.kind = "Delete" -> Deleted(z, op.id)

\* GET /zones/{zone_id}/dns_records?type=..&name=..
ByTypeName(z, type, name) ==
    LET Test(r) == r.type = type /\ r.name = name IN SelectSeq(z, Test)

\* GET /zones/{zone_id}/dns_records?type=..
ByType(z, type) ==
    LET Test(r) == r.type = type IN SelectSeq(z, Test)

\* result_info.total_pages of a listing with per_page = n
TotalPages(z, n) == (Len(z) + n - 1) \div n

\* GET /zones/{zone_id}/dns_records?per_page=n&page=p
PageOf(z, n, p) == SubSeq(z, (p - 1) * n + 1, Min(p * n, Len(z)))

\* The page size of a listing requested without per_page.
DefaultPerPage == 100

\* The result of a GET without a page parameter, of which the tools read
\* "result" and nothing else: the first page of the records recs that match.
Got(recs) == PageOf(recs, DefaultPerPage, 1)

----------------------------------------------------------------------------
(* Command lines *)

Missing == <<"missing", "org">>
Zones == {Zone}              \* the zones the provider holds
Domains == {Zone, Missing}   \* the zone names an invocation may give

NoArgs == [zone |-> Zone]

EnforceArgs == {[zone |-> d] : d \in Domains}

\* update_dns.py parse_args; "", <<>> and 0 stand for an option not given.
DnsBase ==
    [zone |-> Zone, name |-> "", type |-> "", ip |-> <<>>, target |-> <<>>,
     content |-> <<>>, priority |-> DefaultPriority, record_id |-> 0,
     search |-> FALSE, delete |-> FALSE, proxied |-> FALSE, no_proxy |-> FALSE]

DnsNames == {"@", "www"}

DnsUpdateArgs ==
    {[DnsBase EXCEPT !.name = n, !.type = "A", !.ip = c, !.proxied = x] :
        n \in DnsNames, c \in {GithubIps[1], OtherIp}, x \in BOOLEAN}
    \cup {[DnsBase EXCEPT !.name = n, !.type = "AAAA", !.ip = c] :
        n \in DnsNames, c \in {GithubIpv6[1], GithubIpv6[2]}}
    \cup {[DnsBase EXCEPT !.name = n, !.type = "CNAME", !.target = c, !.proxied = x] :
        n \in DnsNames, c \in {PagesHost, OldHost}, x \in BOOLEAN}
    \cup {[DnsBase EXCEPT !.name = n, !.type = "MX", !.content = M365Mx, !.priority = q] :
        n \in DnsNames, q \in {0, DefaultPriority}}
    \cup {[DnsBase EXCEPT !.name = n, !.type = "TXT", !.content = c] :
        n \in DnsNames, c \in {SpfTxt, DmarcTxt}}

DnsDeleteArgs ==
    {[DnsBase EXCEPT !.delete = TRUE, !.record_id = i] : i \in 0..(MaxInit + 1)}
    \cup {[DnsBase EXCEPT !.delete = TRUE, !.record_id = i, !.name = "@",
                          !.type = "A", !.ip = OtherIp] : i \in 0..1}

DnsSearchArgs ==
    {[DnsBase EXCEPT !.search = TRUE, !.name = n, !.type = "CNAME"] :
        n \in {"", "www"}}

DnsBadArgs ==
    { [DnsBase EXCEPT !.name = "@"],
      [DnsBase EXCEPT !.name = "@", !.type = "A"],
      [DnsBase EXCEPT !.name = "@", !.type = "A", !.ip = GithubIpv6[1]],
      [DnsBase EXCEPT !.name = "@", !.type = "CNAME"],
      [DnsBase EXCEPT !.name = "@", !.type = "MX"],
      [DnsBase EXCEPT !.name = "@", !.type = "A", !.ip = OtherIp,
                      !.proxied = TRUE, !.no_proxy = TRUE],
      [DnsBase EXCEPT !.zone = Missing, !.name = "@", !.type = "A", !.ip = OtherIp] }

DnsArgs == DnsUpdateArgs \cup DnsDeleteArgs \cup DnsSearchArgs \cup DnsBadArgs

\* update_pages_dns.py parse_args; <<>> stands for an option not given.
PagesFlags ==
    {"pages_host", "replace_apex", "purge_other_cnames", "set_github_a",
     "set_github_aaaa", "purge_a_and_cname", "set_apex_cname", "set_apex_a",
     "clear_apex_aaaa", "set_www_cname"}

\* The command line that gives exactly the flags of F.
PagesWith(F) ==
    [zone |-> Zone,
     pages_host |-> IF "pages_host" \in F THEN PagesHost ELSE <<>>,
     replace_apex |-> "replace_apex" \in F,
     purge_other_cnames |-> "purge_other_cnames" \in F,
     set_github_a |-> "set_github_a" \in F,
     set_github_aaaa |-> "set_github_aaaa" \in F,
     purge_a_and_cname |-> "purge_a_and_cname" \in F,
     set_apex_cname |-> "set_apex_cname" \in F,
     set_apex_a |-> IF "set_apex_a" \in F THEN OtherIp ELSE <<>>,
     clear_apex_aaaa |-> "clear_apex_aaaa" \in F,
     set_www_cname |-> IF "set_www_cname" \in F THEN OtherHost ELSE <<>>]

PagesArgs ==
    {PagesWith(F) : F \in {G \in SUBSET PagesFlags : Cardinality(G) <= MaxFlags}}
    \cup {[PagesWith({"set_github_a"}) EXCEPT !.zone = Missing]}

Ipv4Literals == Range(GithubIps) \cup {OtherIp}
Ipv6Literals == Range(GithubIpv6)

----------------------------------------------------------------------------
(* Bookkeeping shared by the tools *)

Call(op, ok) == [kind |-> op.kind, id |-> op.id, payload |-> op.payload, ok |-> ok]

Finished == status \in {"ok", "fail", "usage"}

Summary ==
    [tool |-> tool, args |-> args, dry_run |-> dry_run, status |-> status,
     zone0 |-> zone0, zone1 |-> zone, calls |-> calls, plan |-> plan,
     reported |-> reported, changes_needed |-> changes_needed]

NoSummary ==
    [tool |-> "none", args |-> NoArgs, dry_run |-> TRUE, status |-> "idle",
     zone0 |-> <<>>, zone1 |-> <<>>, calls |-> <<>>, plan |-> <<>>,
     reported |-> <<>>, changes_needed |-> 0]

\* No second process has been started.
NoPeer == [pc |-> "none", all_records |-> <<>>]

\* What every invocation starts from.
Fresh(t, a, d) ==
    /\ tool' = t
    /\ args' = a
    /\ dry_run' = d
    /\ status' = "running"
    /\ zone0' = zone
    /\ page' = 1
    /\ requested' = <<>>
    /\ all_records' = <<>>
    /\ idx' = 1
    /\ changes_needed' = 0
    /\ todo' = <<>>
    /\ calls' = <<>>
    /\ plan' = <<>>
    /\ reported' = <<>>
    /\ runs' = runs + 1
    /\ UNCHANGED peer

\* A main that swallows the error and exits with status 0.
RaiseSwallowed ==
    /\ status' = "ok"
    /\ pc' = "done"

\* A tool that goes on after a failed call.
RaiseIgnored ==
    /\ status' = status
    /\ pc' = pc

\* A provider call fails: the tool raises and main exits with status 1.
Raise ==
    /\ status' = "fail"
    /\ pc' = "done"

CanFault == faults < MaxFaults

----------------------------------------------------------------------------
(* enforce_standard.py *)

Standards(z) ==
    << [type |-> "MX", name |-> "@", content |-> M365Mx, priority |-> 0],
       [type |-> "TXT", name |-> "@", content |-> SpfTxt],
       [type |-> "TXT", name |-> "_dmarc", content |-> DmarcTxt],
       [type |-> "A", name |-> "@", content |-> GithubIps[1], proxied |-> FALSE],
       [type |-> "A", name |-> "@", content |-> GithubIps[2], proxied |-> FALSE],
       [type |-> "A", name |-> "@", content |-> GithubIps[3], proxied |-> FALSE],
       [type |-> "A", name |-> "@", content |-> GithubIps[4], proxied |-> FALSE],
       [type |-> "CNAME", name |-> "www", content |-> z, proxied |-> FALSE] >>

\* record_def.get("priority", 10)
DefPriority(def) ==
    IF "priority" \in DOMAIN def THEN def.priority ELSE DefaultPriority

\* record_def.get("proxied", True)
DefProxied(def) ==
    IF "proxied" \in DOMAIN def THEN def.proxied ELSE TRUE

\* A test that takes any record of the type and name for the one wanted.
AlreadyExistsAnyContent(def, z, records) ==
    ByTypeName(records, def.type, FullName(def.name, z)) # <<>>

\* ensure_record, lines 88-103: is the record already there?
AlreadyExists(def, z, records) ==
    LET rec_name == FullName(def.name, z)
        matches == ByTypeName(records, def.type, rec_name)
    IN  IF def.type \in {"MX", "TXT", "A"}
        THEN \E i \in 1..Len(matches) :
                /\ matches[i].content = def.content
                /\ def.type = "MX" => matches[i].priority = DefPriority(def)
        ELSE matches # <<>> /\ matches[1].content = def.content

\* ensure_record, lines 112-123: the payload of the POST
EnsurePayload(def, z) ==
    Payload(def.type, FullName(def.name, z), def.content, EnforceTtl,
            IF def.type = "MX" THEN DefPriority(def) ELSE NoPriority,
            IF def.type \in {"A", "CNAME"} THEN DefProxied(def) ELSE FALSE)

\* An ensure_record that overwrites the first record of the type and name.
EnsureOpOverwrites(def, z, records) ==
    LET matches == ByTypeName(records, def.type, FullName(def.name, z))
    IN  IF matches # <<>>
        THEN Op("Update", matches[1].id, EnsurePayload(def, z))
        ELSE Op("Create", 0, EnsurePayload(def, z))

\* ensure_record, lines 105-126: the one call a missing record leads to
EnsureOp(def, z, records) == Op("Create", 0, EnsurePayload(def, z))

\* An ensure_record that takes the dry-run branch whatever the mode.
EnsurePostsNever(dry) == FALSE

\* ensure_record, line 106: the dry-run branch returns before the POST
EnsurePosts(dry) == ~dry

\* A loop that stops after the first page.
LastPageAlways(p, total_pages) == TRUE

\* get_all_records, line 71: if page >= result_info.get("total_pages", 1): break
LastPage(p, total_pages) == p >= total_pages

\* get_all_records: one pass of the while loop (one page request)
FetchPage ==
    /\ status = "running"
    /\ pc = "list"
    /\ \/ /\ CanFault
          /\ faults' = faults + 1
          /\ Raise
          /\ UNCHANGED listing
       \/ /\ requested' = Append(requested, page)
          /\ all_records' = all_records \o PageOf(zone, PerPage, page)
          /\ IF LastPage(page, TotalPages(zone, PerPage))
             THEN pc' = (IF tool = "audit" THEN "audit" ELSE "ensure") /\ page' = page
             ELSE pc' = "list" /\ page' = page + 1
          /\ UNCHANGED <<faults, status>>
    /\ UNCHANGED <<zone, nextId, runs, tool, args, dry_run, zone0, idx,
                   changes_needed, todo, calls, plan, reported, prev, peer>>

\* After the last standard enforce_standard prints the summary and returns.
AfterEnsure ==
    IF idx = Len(Standards(args.zone))
    THEN status' = "ok" /\ pc' = "done"
    ELSE status' = status /\ pc' = pc

\* enforce_standard, lines 164-166: one pass of the loop, ensure_record included
EnsureRecord ==
    /\ status = "running"
    /\ tool = "enforce"
    /\ pc = "ensure"
    /\ idx <= Len(Standards(args.zone))
    /\ LET def == Standards(args.zone)[idx]
           op == EnsureOp(def, args.zone, all_records)
       IN  IF AlreadyExists(def, args.zone, all_records)
           THEN /\ reported' = Append(reported, idx)
                /\ idx' = idx + 1
                /\ AfterEnsure
                /\ UNCHANGED <<provider, changes_needed, calls, plan>>
           ELSE IF ~EnsurePosts(dry_run)
           THEN /\ plan' = Append(plan, op)
                /\ changes_needed' = changes_needed + 1
                /\ idx' = idx + 1
                /\ AfterEnsure
                /\ UNCHANGED <<provider, calls, reported>>
           ELSE \/ /\ CanFault
                   /\ faults' = faults + 1
                   /\ calls' = Append(calls, Call(op, FALSE))
                   /\ Raise
                   /\ UNCHANGED <<zone, nextId, idx, changes_needed, plan, reported>>
                \/ /\ ~Accepts(zone, op)
                   /\ calls' = Append(calls, Call(op, FALSE))
                   /\ Raise
                   /\ UNCHANGED <<provider, idx, changes_needed, plan, reported>>
                \/ /\ Accepts(zone, op)
                   /\ zone' = Applied(zone, nextId, op)
                   /\ nextId' = IF op.kind = "Create" THEN nextId + 1 ELSE nextId
                   /\ calls' = Append(calls, Call(op, TRUE))
                   /\ changes_needed' = changes_needed + 1
                   /\ idx' = idx + 1
                   /\ AfterEnsure
                   /\ UNCHANGED <<faults, plan, reported>>
    /\ UNCHANGED <<runs, tool, args, dry_run, zone0, listing, todo, prev, peer>>

\* The provider answers the call at the head of todo.  A refused or failed
\* call raises CloudflareError: nothing after it is sent.
IssueCall ==
    /\ status = "running"
    /\ todo # <<>>
    /\ LET op == Head(todo) IN
       \/ /\ CanFault
          /\ faults' = faults + 1
          /\ calls' = Append(calls, Call(op, FALSE))
          /\ Raise
          /\ UNCHANGED <<zone, nextId, todo>>
       \/ /\ ~Accepts(zone, op)
          /\ calls' = Append(calls, Call(op, FALSE))
          /\ Raise
          /\ UNCHANGED <<provider, todo>>
       \/ /\ Accepts(zone, op)
          /\ zone' = Applied(zone, nextId, op)
          /\ nextId' = IF op.kind = "Create" THEN nextId + 1 ELSE nextId
          /\ calls' = Append(calls, Call(op, TRUE))
          /\ todo' = Tail(todo)
          /\ IF Tail(todo) = <<>> /\ pc = "end"
             THEN status' = "ok" /\ pc' = "done"
             ELSE status' = status /\ pc' = pc
          /\ UNCHANGED faults
    /\ UNCHANGED <<runs, tool, args, dry_run, zone0, listing, idx,
                   changes_needed, plan, reported, prev, peer>>

\* A step decided on the operations ops and goes on at nextpc: under dry-run
\* they are reported, otherwise they are sent one by one.
Decide(ops, sends, nextpc) ==
    /\ plan' = IF sends THEN plan ELSE plan \o ops
    /\ todo' = IF sends THEN ops ELSE <<>>
    /\ IF nextpc = "end" /\ (~sends \/ ops = <<>>)
       THEN status' = "ok" /\ pc' = "done"
       ELSE status' = status /\ pc' = nextpc

\* The step sent n record listing requests (GET dns_records without a page
\* parameter: the first page).
Listed(n) == requested' = requested \o [i \in 1..n |-> 1]

\* One of the n GETs of the step fails.
GetFails(n) ==
    /\ CanFault
    /\ faults' = faults + 1
    /\ \E k \in 1..n : Listed(k)
    /\ Raise
    /\ UNCHANGED <<zone, nextId, todo, plan, reported>>

----------------------------------------------------------------------------
(* update_dns.py *)

\* main, lines 261-284: 0 = go on, 2 = usage error, 1 = SystemExit(message)
DnsArgsVerdict(a) ==
    IF a.delete THEN (IF a.record_id = 0 THEN 2 ELSE 0)
    ELSE IF a.name = "" \/ a.type = "" THEN 2
    ELSE IF a.search THEN 0
    ELSE IF a.type \in {"A", "AAAA"} /\ a.ip = <<>> THEN 2
    ELSE IF a.type = "CNAME" /\ a.target = <<>> THEN 2
    ELSE IF a.type \in {"MX", "TXT"} /\ a.content = <<>> THEN 2
    ELSE IF a.type = "A" /\ a.ip \notin Ipv4Literals THEN 1
    ELSE IF a.type = "AAAA" /\ a.ip \notin Ipv6Literals THEN 1
    ELSE 0

\* main, lines 286-291
DnsProxyVerdict(a) == IF a.no_proxy /\ a.proxied THEN 2 ELSE 0

DnsProxied(a) == a.proxied /\ ~a.no_proxy

\* main, lines 301-306
DnsFullName(a) == IF a.name = "" THEN <<>> ELSE FullName(a.name, a.zone)

\* delete_dns_record, line 84: the dry-run branch returns before the DELETE
DeleteSends(dry) == ~dry

\* update_or_create_cname / update_or_create_records: the dry-run branches
\* (lines 107, 115, 138, 146) come before the PATCH and the POST
UpsertSends(dry) == ~dry

\* update_or_create_mx_txt, line 178
MxTxtSends(dry) == ~dry

\* update_or_create_records / update_or_create_cname, the loop over the
\* existing records: the records that get a PATCH, in listing order
RECURSIVE NeedChange(_, _, _)
NeedChange(existing, content, proxied) ==
    IF existing = <<>> THEN <<>>
    ELSE LET rec == Head(existing)
             rest == NeedChange(Tail(existing), content, proxied)
         IN  IF rec.content # content \/ rec.proxied # proxied
             THEN <<rec>> \o rest ELSE rest

RECURSIVE Unchanged(_, _, _)
Unchanged(existing, content, proxied) ==
    IF existing = <<>> THEN <<>>
    ELSE LET rec == Head(existing)
             rest == Unchanged(Tail(existing), content, proxied)
         IN  IF rec.content # content \/ rec.proxied # proxied
             THEN rest ELSE <<rec.id>> \o rest

RECURSIVE UpdateOps(_, _)
UpdateOps(recs, p) ==
    IF recs = <<>> THEN <<>>
    ELSE <<Op("Update", Head(recs).id, p)>> \o UpdateOps(Tail(recs), p)

\* update_or_create_records (A, AAAA) and update_or_create_cname: what the
\* function decides once it holds the existing records
AddressOrCnameOps(existing, type, name, content, proxied) ==
    LET p == Payload(type, name, content, DnsTtl, NoPriority, proxied)
    IN  IF existing # <<>>
        THEN UpdateOps(NeedChange(existing, content, proxied), p)
        ELSE <<Op("Create", 0, p)>>

\* A match on the content alone.
MxTxtMatchContentOnly(existing, type, content, priority) ==
    LET Test(rec) == rec.content = content
    IN  SelectSeq(existing, Test)

\* update_or_create_mx_txt, lines 167-172: the exact match, if any
MxTxtMatch(existing, type, content, priority) ==
    LET Test(rec) == rec.content = content /\ (type # "MX" \/ rec.priority = priority)
    IN  SelectSeq(existing, Test)

\* update_or_create_mx_txt: what the function decides
MxTxtOps(existing, type, name, content, priority) ==
    LET p == Payload(type, name, content, DnsAutoTtl,
                     IF type = "MX" THEN priority ELSE NoPriority, FALSE)
    IN  IF MxTxtMatch(existing, type, content, priority) # <<>>
        THEN <<>>
        ELSE <<Op("Create", 0, p)>>

\* A delete that looks the record up by the name and type given.
DeleteByNameOps(a, z) ==
    LET found == ByTypeName(z, a.type, DnsFullName(a))
    IN  [i \in 1..Len(found) |-> Op("Delete", found[i].id, NoPayload)]

\* main, line 310, and delete_dns_record: the record to delete is
\* args.record_id, whatever the zone z holds
DeleteByIdOps(a, z) == <<Op("Delete", a.record_id, NoPayload)>>

\* main, lines 309-313: --delete
DeleteDnsRecord ==
    /\ status = "running"
    /\ tool = "dns"
    /\ pc = "dns"
    /\ args.delete
    /\ Decide(DeleteByIdOps(args, zone), DeleteSends(dry_run), "end")
    /\ UNCHANGED <<provider, runs, tool, args, dry_run, zone0, listing, idx,
                   changes_needed, calls, reported, prev, peer>>

\* main, lines 316-330: --search
SearchRecords ==
    /\ status = "running"
    /\ tool = "dns"
    /\ pc = "dns"
    /\ ~args.delete
    /\ args.search
    /\ \/ GetFails(1)
       \/ /\ Listed(1)
          /\ reported' = MapIds(Got(ByTypeName(zone, args.type, DnsFullName(args))))
          /\ status' = "ok"
          /\ pc' = "done"
          /\ UNCHANGED <<provider, todo, plan>>
    /\ UNCHANGED <<runs, tool, args, dry_run, zone0, page, all_records, idx,
                   changes_needed, calls, prev, peer>>

\* main, lines 333-338: the update/create functions, up to their first
\* mutating call
UpdateOrCreate ==
    /\ status = "running"
    /\ tool = "dns"
    /\ pc = "dns"
    /\ ~args.delete
    /\ ~args.search
    /\ \/ GetFails(1)
       \/ LET name == DnsFullName(args)
              existing == Got(ByTypeName(zone, args.type, name))
          IN  /\ UNCHANGED provider
              /\ Listed(1)
              /\ CASE args.type \in {"A", "AAAA"} ->
                       /\ reported' = Unchanged(existing, args.ip, DnsProxied(args))
                       /\ Decide(AddressOrCnameOps(existing, args.type, name, args.ip,
                                                   DnsProxied(args)),
                                 UpsertSends(dry_run), "end")
                   [] args.type = "CNAME" ->
                       /\ reported' = Unchanged(existing, args.target, DnsProxied(args))
                       /\ Decide(AddressOrCnameOps(existing, "CNAME", name, args.target,
                                                   DnsProxied(args)),
                                 UpsertSends(dry_run), "end")
                   [] args.type \in {"MX", "TXT"} ->
                       /\ reported' = MapIds(MxTxtMatch(existing, args.type, args.content,
                                                        args.priority))
                       /\ Decide(MxTxtOps(existing, args.type, name, args.content,
                                          args.priority),
                                 MxTxtSends(dry_run), "end")
    /\ UNCHANGED <<runs, tool, args, dry_run, zone0, page, all_records, idx,
                   changes_needed, calls, prev, peer>>

----------------------------------------------------------------------------
(* update_pages_dns.py *)

\* The blocks of main, in program order.
Sections ==
    <<"replace_apex", "apex_cname", "www", "set_apex_a", "clear_apex_aaaa",
      "set_www_cname", "purge_other_cnames", "purge_a", "purge_cname",
      "github_cname", "github">>

\* The condition main puts on each block.
Wanted(sec, a) ==
    CASE sec = "replace_apex" -> a.replace_apex
      [] sec = "apex_cname" ->
            a.set_apex_cname /\ ~(a.set_github_a \/ a.set_github_aaaa)
      [] sec = "www" -> a.pages_host # <<>>
      [] sec = "set_apex_a" -> a.set_apex_a # <<>>
      [] sec = "clear_apex_aaaa" -> a.clear_apex_aaaa
      [] sec = "set_www_cname" -> a.set_www_cname # <<>>
      [] sec = "purge_other_cnames" -> a.purge_other_cnames
      [] sec = "purge_a" -> a.purge_a_and_cname
      [] sec = "purge_cname" -> a.purge_a_and_cname
      [] sec = "github_cname" -> a.set_github_a \/ a.set_github_aaaa
      [] sec = "github" -> a.set_github_a \/ a.set_github_aaaa

\* The first block after position i whose condition holds.
RECURSIVE SectionFrom(_, _)
SectionFrom(i, a) ==
    IF i > Len(Sections) THEN "end"
    ELSE IF Wanted(Sections[i], a) THEN Sections[i]
    ELSE SectionFrom(i + 1, a)

IndexOf(sec) == CHOOSE i \in 1..Len(Sections) : Sections[i] = sec

After(sec, a) == SectionFrom(IndexOf(sec) + 1, a)

\* A tool whose blocks send their calls whatever the mode.
PagesSendsAlways(dry) == TRUE

\* update_pages_dns: every mutation is under "if args.dry_run: print ... else"
PagesSends(dry) == ~dry

RECURSIVE DeleteOps(_)
DeleteOps(recs) ==
    IF recs = <<>> THEN <<>>
    ELSE <<Op("Delete", Head(recs).id, NoPayload)>> \o DeleteOps(Tail(recs))

RECURSIVE CreateOps(_, _, _)
CreateOps(type, name, contents) ==
    IF contents = <<>> THEN <<>>
    ELSE <<Op("Create", 0, Payload(type, name, Head(contents), PagesTtl,
                                   NoPriority, FALSE))>>
         \o CreateOps(type, name, Tail(contents))

\* upsert_cname, lines 103-120, called with proxied=False, ttl=300
UpsertCnameOps(z, name, target) ==
    LET existing == Got(ByTypeName(z, "CNAME", name))
        p == Payload("CNAME", name, target, PagesTtl, NoPriority, FALSE)
    IN  IF existing # <<>>
        THEN LET current == existing[1]
             IN  IF /\ current.content = target
                    /\ current.proxied = FALSE
                    /\ (current.ttl = PagesTtl \/ current.ttl = 1)
                 THEN <<>>
                 ELSE <<Op("Update", current.id, p)>>
        ELSE <<Op("Create", 0, p)>>

\* main, lines 177-186: --replace-apex
ReplaceApexOps(z, a) ==
    DeleteOps(Got(ByTypeName(z, "A", a.zone)) \o Got(ByTypeName(z, "AAAA", a.zone)))

\* main, lines 199-216: --set-apex-a
SetApexAOps(z, a) ==
    DeleteOps(Got(ByTypeName(z, "CNAME", a.zone))
              \o Got(ByTypeName(z, "A", a.zone))
              \o Got(ByTypeName(z, "AAAA", a.zone)))
    \o CreateOps("A", a.zone, <<a.set_apex_a>>)

\* main, lines 219-227: --clear-apex-aaaa
ClearApexAaaaOps(z, a) == DeleteOps(Got(ByTypeName(z, "AAAA", a.zone)))

\* main, lines 234-248: --purge-other-cnames
PurgeOtherCnamesOps(z, a) ==
    LET keep == {a.zone, Www(a.zone)}
        Test(rec) == rec.name \notin keep
    IN  DeleteOps(SelectSeq(Got(ByType(z, "CNAME")), Test))

\* A keep-list without the staging host.
KeepNamesApexWww(a) == {a.zone, Www(a.zone)}

\* main, line 251: keep_names
KeepNames(a) == {a.zone, Www(a.zone), <<"staging">> \o a.zone}

\* main, lines 250-260: --purge-a-and-cname, the A records
PurgeAOps(z, a) ==
    LET Test(rec) == rec.name \notin KeepNames(a)
    IN  DeleteOps(SelectSeq(Got(ByType(z, "A")), Test))

\* main, lines 261-269: --purge-a-and-cname, the CNAME records
PurgeCnameOps(z, a) ==
    LET Test(rec) == rec.name \notin KeepNames(a)
    IN  DeleteOps(SelectSeq(Got(ByType(z, "CNAME")), Test))

\* main, lines 272-280: the apex CNAME goes before GitHub A/AAAA records
GithubCnameOps(z, a) == DeleteOps(Got(ByTypeName(z, "CNAME", a.zone)))

\* main, lines 281-316: the apex A/AAAA records are deleted, then the
\* requested GitHub records are created
GithubOps(z, a) ==
    DeleteOps(Got(ByTypeName(z, "A", a.zone)) \o Got(ByTypeName(z, "AAAA", a.zone)))
    \o (IF a.set_github_a THEN CreateOps("A", a.zone, GithubIps) ELSE <<>>)
    \o (IF a.set_github_aaaa THEN CreateOps("AAAA", a.zone, GithubIpv6) ELSE <<>>)

\* What the block sec decides on the zone it reads.
SectionOps(sec, z, a) ==
    CASE sec = "replace_apex" -> ReplaceApexOps(z, a)
      [] sec = "apex_cname" -> UpsertCnameOps(z, a.zone, a.pages_host)
      [] sec = "www" -> UpsertCnameOps(z, Www(a.zone), a.pages_host)
      [] sec = "set_apex_a" -> SetApexAOps(z, a)
      [] sec = "clear_apex_aaaa" -> ClearApexAaaaOps(z, a)
      [] sec = "set_www_cname" -> UpsertCnameOps(z, Www(a.zone), a.set_www_cname)
      [] sec = "purge_other_cnames" -> PurgeOtherCnamesOps(z, a)
      [] sec = "purge_a" -> PurgeAOps(z, a)
      [] sec = "purge_cname" -> PurgeCnameOps(z, a)
      [] sec = "github_cname" -> GithubCnameOps(z, a)
      [] sec = "github" -> GithubOps(z, a)

\* The record listings the block sec requests before it decides.
SectionGets(sec) ==
    CASE sec = "replace_apex" -> 2
      [] sec = "set_apex_a" -> 3
      [] sec = "purge_other_cnames" -> 2
      [] sec = "github" -> 2
      [] OTHER -> 1

\* One block of main: its GETs and its decision; the mutating calls it
\* decided on follow one by one (IssueCall).
PagesSection ==
    /\ status = "running"
    /\ tool = "pages"
    /\ pc \in Range(Sections)
    /\ todo = <<>>
    /\ \/ /\ ~(pc = "apex_cname" /\ args.pages_host = <<>>)
          /\ GetFails(SectionGets(pc))
       \/ /\ pc = "apex_cname"
          /\ args.pages_host = <<>>
          /\ Raise
          /\ UNCHANGED <<provider, requested, todo, plan, reported>>
       \/ /\ ~(pc = "apex_cname" /\ args.pages_host = <<>>)
          /\ Listed(SectionGets(pc))
          /\ Decide(SectionOps(pc, zone, args), PagesSends(dry_run), After(pc, args))
          /\ UNCHANGED <<provider, reported>>
    /\ UNCHANGED <<runs, tool, args, dry_run, zone0, page, all_records, idx,
                   changes_needed, calls, prev, peer>>

----------------------------------------------------------------------------
(* audit_compliance.py *)

\* Python's  needle in content
Contains(content, needle) ==
    \E i \in 0..(Len(content) - Len(needle)) :
        SubSeq(content, i + 1, i + Len(needle)) = needle

\* Python's  name.startswith(prefix)
StartsWith(name, prefix) ==
    Len(name) >= Len(prefix) /\ SubSeq(name, 1, Len(prefix)) = prefix

\* audit_zone, lines 80-130: the checks that find an issue
AuditIssues(records, z) ==
    LET Mx(r) == r.type = "MX"
                 /\ Contains(r.content, <<"mail", "protection", "outlook", "com">>)
        Spf(r) == r.type = "TXT"
                  /\ Contains(r.content, <<"include:spf.protection.outlook.com">>)
        Dmarc(r) == r.type = "TXT" /\ StartsWith(r.name, <<"_dmarc">> \o z)
        ApexA(r) == r.type = "A" /\ r.name = z
        WwwCname(r) == r.type = "CNAME" /\ r.name = Www(z)
        apex_a_records == SelectSeq(records, ApexA)
        missing_ips == {ip \in Range(GithubIps) :
                           \A i \in 1..Len(apex_a_records) :
                               apex_a_records[i].content # ip}
    IN  (IF SelectSeq(records, Mx) = <<>> THEN {1} ELSE {})
        \cup (IF SelectSeq(records, Spf) = <<>> THEN {2} ELSE {})
        \cup (IF SelectSeq(records, Dmarc) = <<>> THEN {3} ELSE {})
        \cup (IF missing_ips = {} /\ Len(apex_a_records) >= 4 THEN {} ELSE {4})
        \cup (IF SelectSeq(records, WwwCname) = <<>> THEN {5} ELSE {})

\* audit_zone once it holds the records: the checks and the verdict
AuditZone ==
    /\ status = "running"
    /\ tool = "audit"
    /\ pc = "audit"
    /\ reported' = AuditIssues(all_records, args.zone)
    /\ changes_needed' = Cardinality(AuditIssues(all_records, args.zone))
    /\ status' = IF AuditIssues(all_records, args.zone) = {} THEN "ok" ELSE "fail"
    /\ pc' = "done"
    /\ UNCHANGED <<provider, runs, tool, args, dry_run, zone0, listing, idx,
                   todo, calls, plan, prev, peer>>

----------------------------------------------------------------------------
(* The start of every tool's main *)

\* What main decides before its first provider call: 0 = go on,
\* 2 = usage error (sys.exit(2)), 1 = SystemExit with a message.
ArgsVerdict(t, a) ==
    IF t # "dns" THEN 0
    ELSE IF DnsArgsVerdict(a) # 0 THEN DnsArgsVerdict(a)
    ELSE DnsProxyVerdict(a)

\* Where each tool goes once it holds the zone id.
FirstStep(t, a) ==
    CASE t = "enforce" -> "list"
      [] t = "audit" -> "list"
      [] t = "dns" -> "dns"
      [] t = "pages" -> SectionFrom(1, a)

\* main up to and including get_zone_id
ResolveZone ==
    /\ status = "running"
    /\ pc = "zone"
    /\ \/ /\ ArgsVerdict(tool, args) = 2
          /\ status' = "usage"
          /\ pc' = "done"
          /\ UNCHANGED faults
       \/ /\ ArgsVerdict(tool, args) = 1
          /\ Raise
          /\ UNCHANGED faults
       \/ /\ ArgsVerdict(tool, args) = 0
          /\ \/ /\ CanFault
                /\ faults' = faults + 1
                /\ Raise
             \/ /\ args.zone \notin Zones
                /\ Raise
                /\ UNCHANGED faults
             \/ /\ args.zone \in Zones
                /\ IF FirstStep(tool, args) = "end"
                   THEN status' = "ok" /\ pc' = "done"
                   ELSE status' = status /\ pc' = FirstStep(tool, args)
                /\ UNCHANGED faults
    /\ UNCHANGED <<zone, nextId, runs, tool, args, dry_run, zone0, listing, idx,
                   changes_needed, todo, calls, plan, reported, prev, peer>>

----------------------------------------------------------------------------
(* Initial zones *)

Catalog ==
    << [type |-> "CNAME", name |-> Zone, content |-> OldHost, ttl |-> 300,
        priority |-> NoPriority, proxied |-> FALSE],
       [type |-> "CNAME", name |-> Www(Zone), content |-> OldHost, ttl |-> 300,
        priority |-> NoPriority, proxied |-> FALSE],
       [type |-> "A", name |-> Zone, content |-> GithubIps[1], ttl |-> 1,
        priority |-> NoPriority, proxied |-> FALSE],
       [type |-> "A", name |-> Zone, content |-> OtherIp, ttl |-> 120,
        priority |-> NoPriority, proxied |-> TRUE],
       [type |-> "AAAA", name |-> Zone, content |-> GithubIpv6[1], ttl |-> 300,
        priority |-> NoPriority, proxied |-> FALSE],
       [type |-> "MX", name |-> Zone, content |-> M365Mx, ttl |-> 1,
        priority |-> 10, proxied |-> FALSE],
       [type |-> "TXT", name |-> Zone, content |-> VerifyTxt, ttl |-> 1,
        priority |-> NoPriority, proxied |-> FALSE],
       [type |-> "A", name |-> <<"old">> \o Zone, content |-> OtherIp, ttl |-> 300,
        priority |-> NoPriority, proxied |-> FALSE],
       [type |-> "CNAME", name |-> <<"shop">> \o Zone, content |-> OldHost,
        ttl |-> 300, priority |-> NoPriority, proxied |-> FALSE] >>

\* The records picked from the catalog, with the ids the provider gave them.
ZoneOf(pick) ==
    [i \in 1..Len(pick) |->
        LET c == Catalog[pick[i]]
        IN  Rec(i, c.type, c.name, c.content, c.ttl, c.priority, c.proxied)]

\* A zone the provider can hold: no CNAME next to an A/AAAA of the same name.
Consistent(z) ==
    \A i, j \in 1..Len(z) :
        (z[i].name = z[j].name /\ z[i].type = "CNAME") => z[j].type \notin AddressTypes

Picks ==
    {p \in UNION {[1..n -> 1..Len(Catalog)] : n \in 0..MaxInit} :
        \A i, j \in 1..Len(p) : i # j => p[i] # p[j]}

InitialZones == {ZoneOf(p) : p \in {q \in Picks : Consistent(ZoneOf(q))}}

\* A zone of n records for the listing check.
BulkZone(n) ==
    [i \in 1..n |-> Rec(i, "TXT", Zone, <<"bulk">>, 1, NoPriority, FALSE)]

BulkSizes ==
    {k * PerPage + d : k \in 0..MaxPages, d \in {0 - 1, 0, 1}} \cap Nat

Idle ==
    /\ faults = 0
    /\ runs = 0
    /\ tool = "none"
    /\ args = NoArgs
    /\ dry_run = TRUE
    /\ pc = "done"
    /\ status = "idle"
    /\ zone0 = <<>>
    /\ page = 1
    /\ requested = <<>>
    /\ all_records = <<>>
    /\ idx = 1
    /\ changes_needed = 0
    /\ todo = <<>>
    /\ calls = <<>>
    /\ plan = <<>>
    /\ reported = <<>>
    /\ prev = NoSummary
    /\ peer = NoPeer

Init ==
    /\ zone \in InitialZones
    /\ nextId = Len(zone) + 1
    /\ Idle

InitListing ==
    /\ zone \in {BulkZone(n) : n \in BulkSizes}
    /\ nextId = Len(zone) + 1
    /\ Idle

----------------------------------------------------------------------------
(* Invocations *)

EnforceCommands == {[tool |-> "enforce", args |-> a] : a \in EnforceArgs}
DnsCommands == {[tool |-> "dns", args |-> a] : a \in DnsArgs}
PagesCommands == {[tool |-> "pages", args |-> a] : a \in PagesArgs}
Commands == EnforceCommands \cup DnsCommands \cup PagesCommands

\* A main that goes to its first step without looking the zone up.
StartUnresolved(cmds) ==
    /\ status = "idle" \/ Finished
    /\ runs < MaxRuns
    /\ \E c \in cmds, d \in BOOLEAN :
        /\ runs > 0 => (c.tool = tool /\ c.args = args /\ ~d)
        /\ Fresh(c.tool, c.args, d)
        /\ pc' = FirstStep(c.tool, c.args)
    /\ prev' = IF runs = 0 THEN NoSummary ELSE Summary
    /\ UNCHANGED provider

\* The operator starts a command of cmds in either mode; a later invocation
\* repeats the command in apply mode (preview then apply, or apply twice).
Start(cmds) ==
    /\ status = "idle" \/ Finished
    /\ runs < MaxRuns
    /\ \E c \in cmds, d \in BOOLEAN :
        /\ runs > 0 => (c.tool = tool /\ c.args = args /\ ~d)
        /\ Fresh(c.tool, c.args, d)
    /\ pc' = "zone"
    /\ prev' = IF runs = 0 THEN NoSummary ELSE Summary
    /\ UNCHANGED provider

StartRun == Start(Commands)
StartEnforce == Start(EnforceCommands)
StartDns == Start(DnsCommands)
StartPages == Start(PagesCommands)

\* The operator runs the compliance audit.
StartAudit ==
    /\ status = "idle"
    /\ runs < MaxRuns
    /\ Fresh("audit", NoArgs, TRUE)
    /\ pc' = "zone"
    /\ prev' = NoSummary
    /\ UNCHANGED provider

Next ==
    \/ StartRun
    \/ ResolveZone
    \/ FetchPage
    \/ EnsureRecord
    \/ DeleteDnsRecord
    \/ SearchRecords
    \/ UpdateOrCreate
    \/ PagesSection
    \/ IssueCall

Spec == Init /\ [][Next]_vars

\* One tool at a time
NextEnforce == StartEnforce \/ ResolveZone \/ FetchPage \/ EnsureRecord
SpecEnforce == Init /\ [][NextEnforce]_vars

NextDns ==
    \/ StartDns
    \/ ResolveZone
    \/ DeleteDnsRecord
    \/ SearchRecords
    \/ UpdateOrCreate
    \/ IssueCall
SpecDns == Init /\ [][NextDns]_vars

NextPages == StartPages \/ ResolveZone \/ PagesSection \/ IssueCall
SpecPages == Init /\ [][NextPages]_vars

NextListing ==
    \/ StartAudit
    \/ ResolveZone
    \/ FetchPage
    \/ AuditZone

SpecListing == InitListing /\ [][NextListing]_vars

----------------------------------------------------------------------------
(* export_zone_dns_summary.py *)

\* parse_args: --zones (a list of names), --all-zones, --zone-ids (the names
\* an id is given for)
ExportArgs ==
    {[zone |-> Zone, zones |-> l, all_zones |-> FALSE, zone_ids |-> m] :
        l \in UNION {[1..n -> Domains] : n \in 0..MaxZones},
        m \in {{}, {Zone}}}
    \cup {[zone |-> Zone, zones |-> <<>>, all_zones |-> TRUE, zone_ids |-> {}]}

\* load_zones, lines 181-188: deduplicate preserving order
RECURSIVE Unique(_, _)
Unique(zs, seen) ==
    IF zs = <<>> THEN <<>>
    ELSE IF Head(zs) \in seen THEN Unique(Tail(zs), seen)
    ELSE <<Head(zs)>> \o Unique(Tail(zs), seen \cup {Head(zs)})

\* main, lines 229-234: the zones the loop goes through
ExportZones(a) == IF a.all_zones THEN <<Zone>> ELSE Unique(a.zones, {})

\* main, lines 230-239: the names of zone_id_map
ZoneIdMap(a) == IF a.all_zones THEN Zones ELSE a.zone_ids

\* dns_records with per_page = n and no page parameter: the first page
FirstPage(recs, n) == PageOf(recs, n, 1)

\* join_field: the values of a key, in listing order
JoinField(recs, key) == [i \in 1..Len(recs) |-> recs[i][key]]

\* join_bool
JoinBool(recs, key) ==
    [i \in 1..Len(recs) |-> IF recs[i][key] THEN "true" ELSE "false"]

\* filter_out, then len
CountOutside(recs, names) ==
    LET Test(r) == r.name \notin names IN Len(SelectSeq(recs, Test))

ExportRow(name, a, at, ap, aaaa, aaaat, aaaap, www, wt, wp, na, naaaa, nc) ==
    [zone |-> name, apex_a_ips |-> a, apex_a_ttls |-> at,
     apex_a_proxied |-> ap, apex_aaaa_ips |-> aaaa,
     apex_aaaa_ttls |-> aaaat, apex_aaaa_proxied |-> aaaap,
     www_cname_target |-> www, www_cname_ttl |-> wt,
     www_cname_proxied |-> wp, other_a_count |-> na,
     other_aaaa_count |-> naaaa, other_cname_count |-> nc]

\* collect_zone_summary, lines 90-104, and main, lines 250-264
EmptyRow(name) ==
    ExportRow(name, <<>>, <<>>, <<>>, <<>>, <<>>, <<>>, <<>>, <<>>, "", 0, 0, 0)

\* collect_zone_summary, lines 106-151, on the records z of the zone
SummaryRow(name, z) ==
    LET apex_a == FirstPage(ByTypeName(z, "A", name), ExportPerPage)
        apex_aaaa == FirstPage(ByTypeName(z, "AAAA", name), ExportPerPage)
        www_name == Www(name)
        www_cname == FirstPage(ByTypeName(z, "CNAME", www_name), 1)
        other_a == FirstPage(ByType(z, "A"), ExportPerPage)
        other_aaaa == FirstPage(ByType(z, "AAAA"), ExportPerPage)
        other_cname == FirstPage(ByType(z, "CNAME"), ExportPerPage)
    IN  ExportRow(name,
            JoinField(apex_a, "content"), JoinField(apex_a, "ttl"),
            JoinBool(apex_a, "proxied"),
            JoinField(apex_aaaa, "content"), JoinField(apex_aaaa, "ttl"),
            JoinBool(apex_aaaa, "proxied"),
            IF www_cname # <<>> THEN www_cname[1].content ELSE <<>>,
            IF www_cname # <<>> THEN <<www_cname[1].ttl>> ELSE <<>>,
            IF www_cname = <<>> THEN ""
            ELSE IF www_cname[1].proxied THEN "true" ELSE "false",
            CountOutside(other_a, {name}),
            CountOutside(other_aaaa, {name}),
            CountOutside(other_cname, {name, www_name}))

\* The operator runs the export.
StartExport ==
    /\ status = "idle"
    /\ runs < MaxRuns
    /\ \E a \in ExportArgs : Fresh("export", a, TRUE)
    /\ pc' = "load"
    /\ prev' = NoSummary
    /\ UNCHANGED provider

\* main, lines 227-239: load_zones, load_zone_id_map and, with --all-zones,
\* list_all_zones.  SystemExit ends the process with status 1.
ExportLoad ==
    /\ status = "running"
    /\ tool = "export"
    /\ pc = "load"
    /\ \/ /\ ~args.all_zones
          /\ Unique(args.zones, {}) = <<>>
          /\ Raise
          /\ UNCHANGED faults
       \/ /\ args.all_zones
          /\ CanFault
          /\ faults' = faults + 1
          /\ Raise
       \/ /\ args.all_zones \/ Unique(args.zones, {}) # <<>>
          /\ pc' = "rows"
          /\ UNCHANGED <<faults, status>>
    /\ UNCHANGED <<zone, nextId, runs, tool, args, dry_run, zone0, listing, idx,
                   changes_needed, todo, calls, plan, reported, prev, peer>>

\* After the last zone main writes the rows to the output file.
AfterRow ==
    IF idx = Len(ExportZones(args))
    THEN status' = "ok" /\ pc' = "done"
    ELSE status' = status /\ pc' = pc

\* collect_zone_summary, lines 107-116: the record listings of a resolved zone
SummaryListings(name, a) ==
    IF name \in ZoneIdMap(a) \/ name \in Zones THEN 6 ELSE 0

\* Where a GET of collect_zone_summary can fail, by the record listings
\* requested up to then: 0 is the zone lookup, sent unless an id was given.
FailurePoints(name, a) ==
    (IF name \in ZoneIdMap(a) THEN {} ELSE {0}) \cup 1..SummaryListings(name, a)

\* main, lines 242-264: one pass of the loop, collect_zone_summary included
ExportZone ==
    /\ status = "running"
    /\ tool = "export"
    /\ pc = "rows"
    /\ idx <= Len(ExportZones(args))
    /\ LET zone_name == ExportZones(args)[idx]
           resolved == zone_name \in ZoneIdMap(args) \/ zone_name \in Zones
       IN  \/ \* a GET is answered with an error: api_get raises SystemExit,
              \* which main re-raises
              /\ CanFault
              /\ faults' = faults + 1
              /\ \E k \in FailurePoints(zone_name, args) : Listed(k)
              /\ Raise
              /\ UNCHANGED <<idx, reported>>
           \/ \* requests.get itself raises: main records an empty row
              /\ CanFault
              /\ faults' = faults + 1
              /\ \E k \in FailurePoints(zone_name, args) : Listed(k)
              /\ reported' = Append(reported, EmptyRow(zone_name))
              /\ idx' = idx + 1
              /\ AfterRow
           \/ /\ Listed(SummaryListings(zone_name, args))
              /\ reported' = Append(reported,
                    IF resolved THEN SummaryRow(zone_name, zone)
                    ELSE EmptyRow(zone_name))
              /\ idx' = idx + 1
              /\ AfterRow
              /\ UNCHANGED faults
    /\ UNCHANGED <<zone, nextId, runs, tool, args, dry_run, zone0, page,
                   all_records, changes_needed, todo, calls, plan, prev, peer>>

NextExport == StartExport \/ ExportLoad \/ ExportZone
SpecExport == Init /\ [][NextExport]_vars

----------------------------------------------------------------------------
(* ensure_record on its own *)

\* Record definitions ensure_record can be given, beyond the standard set.
EnsureDefs ==
    { [type |-> "A", name |-> "@", content |-> GithubIps[1], proxied |-> FALSE],
      [type |-> "AAAA", name |-> "@", content |-> GithubIpv6[1]],
      [type |-> "MX", name |-> "@", content |-> M365Mx, priority |-> 0],
      [type |-> "TXT", name |-> "@", content |-> SpfTxt],
      [type |-> "CNAME", name |-> "www", content |-> Zone, proxied |-> FALSE] }

\* Records a snapshot may hold at the names of EnsureDefs.
EnsureCatalog ==
    << [type |-> "A", name |-> Zone, content |-> GithubIps[1], priority |-> NoPriority],
       [type |-> "A", name |-> Zone, content |-> OtherIp, priority |-> NoPriority],
       [type |-> "AAAA", name |-> Zone, content |-> GithubIpv6[1], priority |-> NoPriority],
       [type |-> "AAAA", name |-> Zone, content |-> GithubIpv6[2], priority |-> NoPriority],
       [type |-> "MX", name |-> Zone, content |-> M365Mx, priority |-> 0],
       [type |-> "MX", name |-> Zone, content |-> M365Mx, priority |-> 10],
       [type |-> "TXT", name |-> Zone, content |-> SpfTxt, priority |-> NoPriority],
       [type |-> "TXT", name |-> Zone, content |-> VerifyTxt, priority |-> NoPriority],
       [type |-> "CNAME", name |-> Www(Zone), content |-> Zone, priority |-> NoPriority],
       [type |-> "CNAME", name |-> Www(Zone), content |-> OldHost, priority |-> NoPriority] >>

EnsureZones ==
    {[i \in 1..Len(p) |->
         LET c == EnsureCatalog[p[i]]
         IN  Rec(i, c.type, c.name, c.content, 1, c.priority, FALSE)] :
     p \in {q \in UNION {[1..n -> 1..Len(EnsureCatalog)] : n \in 0..MaxInit} :
               \A i, j \in 1..Len(q) : i # j => q[i] # q[j]}}

InitEnsure ==
    /\ zone \in {z \in EnsureZones : Consistent(z)}
    /\ nextId = Len(zone) + 1
    /\ Idle

\* ensure_record is called with a record definition, the zone's records as
\* the snapshot, and a mode.
StartEnsure ==
    /\ status = "idle"
    /\ runs < MaxRuns
    /\ \E def \in EnsureDefs, d \in BOOLEAN :
          Fresh("ensure", [zone |-> Zone, def |-> def], d)
    /\ pc' = "ensure_record"
    /\ prev' = NoSummary
    /\ UNCHANGED provider

\* ensure_record, lines 78-131
EnsureOne ==
    /\ status = "running"
    /\ tool = "ensure"
    /\ pc = "ensure_record"
    /\ LET def == args.def
           op == EnsureOp(def, args.zone, zone)
       IN  IF AlreadyExists(def, args.zone, zone)
           THEN /\ reported' = <<def>>
                /\ status' = "ok"
                /\ UNCHANGED <<provider, changes_needed, calls, plan>>
           ELSE IF ~EnsurePosts(dry_run)
           THEN /\ plan' = <<op>>
                /\ changes_needed' = 1
                /\ status' = "ok"
                /\ UNCHANGED <<provider, calls, reported>>
           ELSE \/ /\ CanFault
                   /\ faults' = faults + 1
                   /\ calls' = <<Call(op, FALSE)>>
                   /\ status' = "fail"
                   /\ UNCHANGED <<zone, nextId, changes_needed, plan, reported>>
                \/ /\ ~Accepts(zone, op)
                   /\ calls' = <<Call(op, FALSE)>>
                   /\ status' = "fail"
                   /\ UNCHANGED <<provider, changes_needed, plan, reported>>
                \/ /\ Accepts(zone, op)
                   /\ zone' = Applied(zone, nextId, op)
                   /\ nextId' = nextId + 1
                   /\ calls' = <<Call(op, TRUE)>>
                   /\ changes_needed' = 1
                   /\ status' = "ok"
                   /\ UNCHANGED <<faults, plan, reported>>
    /\ pc' = "done"
    /\ all_records' = zone
    /\ UNCHANGED <<runs, tool, args, dry_run, zone0, page, requested, idx, todo,
                   prev, peer>>

NextEnsure == StartEnsure \/ EnsureOne
SpecEnsure == InitEnsure /\ [][NextEnsure]_vars

----------------------------------------------------------------------------
(* Properties *)

\* The mutating calls of the current invocation, without their outcome.
RECURSIVE Strip(_)
Strip(cs) ==
    IF cs = <<>> THEN <<>>
    ELSE <<Op(Head(cs).kind, Head(cs).id, Head(cs).payload)>> \o Strip(Tail(cs))

\* The current invocation repeats the previous one, which was an apply run
\* that completed.
SecondApply ==
    /\ status # "idle"
    /\ ~dry_run
    /\ prev.status = "ok"
    /\ ~prev.dry_run

\* The current invocation is the apply run of the command the previous
\* invocation previewed, on the zone state the preview saw.
ApplyAfterPreview ==
    /\ status # "idle"
    /\ ~dry_run
    /\ prev.status # "idle"
    /\ prev.dry_run
    /\ prev.zone0 = zone0

StandardIndexes == <<1, 2, 3, 4, 5, 6, 7, 8>>

\* C1: an apply run of enforce_standard that follows a completed apply run
\* of enforce_standard issues no mutating call, counts no change and
\* reports all eight standards as already existing.
C1_SecondRunIsNoop ==
    (tool = "enforce" /\ SecondApply) =>
        /\ calls = <<>>
        /\ changes_needed = 0
        /\ status = "ok" => reported = StandardIndexes

\* C2: an invocation in dry-run mode sends no mutating call and leaves the
\* zone as it found it, whatever the tool and the command line.
C2_DryRunNoMutation ==
    (status # "idle" /\ dry_run) =>
        /\ calls = <<>>
        /\ todo = <<>>
        /\ zone = zone0

\* A dry run of update_pages_dns completed and reported a delete and a
\* create, none of which was sent.
C2_Witness ==
    /\ dry_run
    /\ status = "ok"
    /\ tool = "pages"
    /\ Len(plan) >= 2
    /\ \E i \in 1..Len(plan) : plan[i].kind = "Delete"
    /\ \E i \in 1..Len(plan) : plan[i].kind = "Create"

\* C5: a run of enforce_standard keeps every record it found, with the same
\* id and fields and in the same place, and sends nothing but creates.
C5_StandardRunOnlyAdds ==
    (tool = "enforce" /\ status # "idle") =>
        /\ Len(zone) >= Len(zone0)
        /\ SubSeq(zone, 1, Len(zone0)) = zone0
        /\ \A i \in 1..Len(calls) : calls[i].kind = "Create"
        /\ \A i \in 1..Len(plan) : plan[i].kind = "Create"

\* An apply run completed on a zone that held a non-standard apex A record
\* and an MX record of another priority, and added records.
C5_Witness ==
    /\ tool = "enforce"
    /\ status = "ok"
    /\ ~dry_run
    /\ Len(zone) > Len(zone0)
    /\ \E i \in 1..Len(zone0) : zone0[i].type = "A" /\ zone0[i].content = OtherIp
    /\ \E i \in 1..Len(zone0) : zone0[i].type = "MX" /\ zone0[i].priority # 0

\* C7: with no transient failure, the apply run of a command ends in an
\* error exactly when its dry run on the same zone state did.
C7_SameErrorOutcome ==
    (ApplyAfterPreview /\ Finished /\ faults = 0) =>
        ((prev.status = "fail") <=> (status = "fail"))

\* C8: when get_all_records returns, it holds the zone's records in the
\* provider's order and has requested pages 1..max(1, total_pages) once each.
C8_ListingComplete ==
    (status # "idle" /\ pc \in {"audit", "ensure"}) =>
        /\ all_records = zone0
        /\ requested = [i \in 1..(IF TotalPages(zone0, PerPage) = 0 THEN 1
                                  ELSE TotalPages(zone0, PerPage)) |-> i]

\* The listing of a zone of PerPage + 1 records returned.
C8_Witness ==
    /\ pc = "audit"
    /\ Len(zone) = PerPage + 1
    /\ Len(all_records) = PerPage + 1
    /\ requested = <<1, 2>>

\* What a report and a call can be compared on: the kind, the record name
\* and content, and the id of a delete.
View(op) ==
    [kind |-> op.kind, name |-> op.payload.name, content |-> op.payload.content,
     id |-> IF op.kind = "Delete" THEN op.id ELSE 0]

Views(ops) == [i \in 1..Len(ops) |-> View(ops[i])]

\* The operations of the current invocation: reported under dry-run, sent
\* otherwise.
Ops == IF dry_run THEN plan ELSE Strip(calls)

\* C3: the operations a dry run of update_pages_dns reported are, in order,
\* the mutating calls the apply run of the same command sends from the same
\* zone state.
C3_PlanEqualsApply ==
    (tool = "pages" /\ ApplyAfterPreview /\ status = "ok" /\ prev.status = "ok") =>
        Views(Strip(calls)) = Views(prev.plan)

ApexCnames(z) == ByTypeName(z, "CNAME", args.zone)

IdsOf(z) == {z[i].id : i \in 1..Len(z)}

IsApexACreate(op) ==
    op.kind = "Create" /\ op.payload.type = "A" /\ op.payload.name = args.zone

\* C4: when the zone holds an apex CNAME and update_pages_dns is asked for
\* apex A records, every delete of an apex CNAME comes before the first
\* create of an apex A record, no apex A record the run created coexists
\* with an apex CNAME, and --set-github-a alone is the CNAME deletes followed
\* by the four A creates.
C4_ApexOrdering ==
    (/\ tool = "pages"
     /\ status # "idle"
     /\ args.set_github_a \/ args.set_apex_a # <<>>
     /\ ApexCnames(zone0) # <<>>) =>
        /\ \A i, j \in 1..Len(Ops) :
              (/\ Ops[i].kind = "Delete"
               /\ Ops[i].id \in IdsOf(ApexCnames(zone0))
               /\ IsApexACreate(Ops[j])) => i < j
        /\ ~(/\ ApexCnames(zone) # <<>>
             /\ \E i \in 1..Len(zone) :
                   /\ zone[i].type = "A"
                   /\ zone[i].name = args.zone
                   /\ zone[i].id \notin IdsOf(zone0))
        /\ (args = PagesWith({"set_github_a"}) /\ status = "ok") =>
              Ops = DeleteOps(ApexCnames(zone0))
                    \o CreateOps("A", args.zone, GithubIps)

\* The value an update_dns command asks for.
DnsDesired == IF args.type \in {"A", "AAAA"} THEN args.ip ELSE args.content

DnsEnsures(types) ==
    /\ tool = "dns"
    /\ status # "idle"
    /\ ~args.delete
    /\ ~args.search
    /\ args.type \in types

\* The record differs from the value the command asks for.
DiffersFromDesired(r) ==
    r.content # DnsDesired \/ (args.type = "MX" /\ r.priority # args.priority)

\* C6: with no transient failure, an apply run of update_dns for an A, AAAA,
\* MX or TXT record leaves every record of that type and name with another
\* value as it was, and sends at most one call, a create.
C6_MultiValueAdditive ==
    (DnsEnsures({"A", "AAAA", "MX", "TXT"}) /\ ~dry_run /\ faults = 0) =>
        /\ \A i \in 1..Len(zone0) :
              (/\ zone0[i].type = args.type
               /\ zone0[i].name = DnsFullName(args)
               /\ DiffersFromDesired(zone0[i])) =>
                    \E j \in 1..Len(zone) : zone[j] = zone0[i]
        /\ Len(calls) <= 1
        /\ \A i \in 1..Len(calls) : calls[i].kind = "Create"

\* The zone z holds the value the command asks for, at its name and type.
HoldsDesired(z) ==
    \E i \in 1..Len(z) :
        /\ z[i].type = args.type
        /\ z[i].name = DnsFullName(args)
        /\ ~DiffersFromDesired(z[i])

\* C9: an apply run of update_dns for an MX or TXT record that completes on
\* a zone without an exact match has sent one create with the desired
\* content and priority and nothing else; on a zone with an exact match, and
\* so when the command is repeated, it sends nothing and reports the record
\* as unchanged.
C9_MxTxtEnsure ==
    (DnsEnsures({"MX", "TXT"}) /\ ~dry_run /\ status = "ok") =>
        /\ ~HoldsDesired(zone0) =>
              /\ Len(calls) = 1
              /\ calls[1].kind = "Create"
              /\ calls[1].ok
              /\ calls[1].payload.type = args.type
              /\ calls[1].payload.name = DnsFullName(args)
              /\ calls[1].payload.content = args.content
              /\ args.type = "MX" => calls[1].payload.priority = args.priority
              /\ Len(zone) = Len(zone0) + 1
              /\ SubSeq(zone, 1, Len(zone0)) = zone0
        /\ HoldsDesired(zone0) =>
              /\ calls = <<>>
              /\ zone = zone0
              /\ reported # <<>>
        /\ SecondApply => (calls = <<>> /\ reported # <<>>)

\* The command was applied to a zone whose only MX record had another
\* priority and created the record; applied again, it changed nothing.
C9_Witness ==
    /\ DnsEnsures({"MX"})
    /\ args.priority = 0
    /\ SecondApply
    /\ status = "ok"
    /\ Len(prev.calls) = 1
    /\ \E i \in 1..Len(prev.zone0) : prev.zone0[i].type = "MX"
    /\ calls = <<>>

\* The apex of z holds exactly the four GitHub Pages A records and no CNAME.
ApexExact(z) ==
    LET apex_a == ByTypeName(z, "A", args.zone)
    IN  /\ Len(apex_a) = 4
        /\ {apex_a[i].content : i \in 1..4} = Range(GithubIps)
        /\ ApexCnames(z) = <<>>

\* C10: update_pages_dns --set-github-a on a zone whose apex already holds
\* exactly the four GitHub Pages A records sends and reports no operation.
C10_ExactApexIsNoop ==
    (/\ tool = "pages"
     /\ status # "idle"
     /\ args = PagesWith({"set_github_a"})
     /\ ApexExact(zone0)) =>
        /\ calls = <<>>
        /\ plan = <<>>
        /\ todo = <<>>

\* C11: a run of update_pages_dns that was given neither a purge flag nor
\* --replace-apex nor --clear-apex-aaaa deletes, and reports the deletion of,
\* no A or AAAA record that existed when it started.
C11_NoDeleteWithoutPurge ==
    (/\ tool = "pages"
     /\ status # "idle"
     /\ ~args.purge_other_cnames
     /\ ~args.purge_a_and_cname
     /\ ~args.replace_apex
     /\ ~args.clear_apex_aaaa) =>
        /\ \A i \in 1..Len(zone0) :
              zone0[i].type \in AddressTypes => HasId(zone, zone0[i].id)
        /\ \A j \in 1..Len(Ops) : \A i \in 1..Len(zone0) :
              (Ops[j].kind = "Delete" /\ Ops[j].id = zone0[i].id) =>
                    zone0[i].type \notin AddressTypes

\* add_argument("--dry-run", action="store_true"): args.dry_run is True
\* exactly when the command line gives the flag.
DryRunFlagGiven == dry_run

\* C12: an invocation of enforce_standard, update_dns or update_pages_dns
\* whose command line gives no mode flag sends no mutating call and leaves
\* the zone as it found it.
C12_DefaultIsDryRun ==
    (status # "idle" /\ tool \in {"enforce", "dns", "pages"} /\ ~DryRunFlagGiven) =>
        /\ calls = <<>>
        /\ zone = zone0

\* C13: with no transient failure, an apply run of update_dns --delete whose
\* record id the zone does not hold ends successfully.
C13_DeleteAbsentIsNoop ==
    (/\ tool = "dns"
     /\ args.delete
     /\ args.record_id # 0
     /\ ~dry_run
     /\ Finished
     /\ faults = 0
     /\ args.zone \in Zones
     /\ ~HasId(zone0, args.record_id)) =>
        status = "ok"

\* C14: a run of update_dns --delete requests no record listing and, given
\* a record id, sends (or reports under dry-run) nothing but one Delete of
\* that id, whatever name, type and address came with it; without a record
\* id it ends as a usage error and no provider call has been made.
C14_DeleteByIdOnly ==
    (tool = "dns" /\ status # "idle" /\ args.delete) =>
        /\ requested = <<>>
        /\ reported = <<>>
        /\ Len(Ops) <= 1
        /\ \A i \in 1..Len(Ops) : Ops[i] = Op("Delete", args.record_id, NoPayload)
        /\ (status = "ok") => Len(Ops) = 1
        /\ (args.record_id = 0) =>
              /\ status \in {"running", "usage"}
              /\ pc \in {"zone", "done"}
              /\ Ops = <<>>
              /\ faults = IF prev.status = "idle" THEN 0 ELSE faults

\* An apply run deleted the record of the id given although the command
\* line also named another record: the apex A record of the zone.
C14_Witness ==
    /\ tool = "dns"
    /\ args.delete
    /\ ~dry_run
    /\ status = "ok"
    /\ args.name = "@"
    /\ args.type = "A"
    /\ Len(zone0) = 2
    /\ zone0[1].id = args.record_id
    /\ zone0[1].type # "A"
    /\ zone0[2].type = "A"
    /\ zone0[2].name = args.zone
    /\ zone = <<zone0[2]>>

\* The step from the current state failed a provider call of the run: a
\* request failed, the provider refused a mutating call, or the zone lookup
\* found no zone.
CallFailed ==
    \/ faults' > faults
    \/ Len(calls') = Len(calls) + 1 /\ ~calls'[Len(calls')].ok
    \/ pc = "zone" /\ args.zone \notin Zones

\* C15: a run of enforce_standard ends with a failure status exactly when a
\* provider call of the run failed; otherwise it ends with status 0, and the
\* change count it reports is 0 exactly when every standard record was found
\* and is the number of operations it reported (dry-run) or sent (apply).
C15_ExitStatus ==
    [][(tool = "enforce" /\ tool' = "enforce" /\ status = "running") =>
          /\ CallFailed <=> status' = "fail"
          /\ status' \in {"running", "ok", "fail"}
          /\ status' = "ok" =>
                /\ (changes_needed' = 0) <=> (reported' = StandardIndexes)
                /\ changes_needed' = Len(plan') + Len(calls')
                /\ dry_run => calls' = <<>>
                /\ ~dry_run => plan' = <<>>]_vars

\* The dry run ended with status 0 and pending changes; the apply run of the
\* same command then failed on a call the provider refused.
C15_Witness ==
    /\ tool = "enforce"
    /\ ApplyAfterPreview
    /\ prev.status = "ok"
    /\ prev.changes_needed >= 1
    /\ status = "fail"
    /\ calls # <<>>
    /\ ~calls[Len(calls)].ok

\* The zone names of the rows, in row order.
RowZones == [i \in 1..Len(reported) |-> reported[i].zone]

\* C16: an export ends by writing one row per requested zone, in the order
\* of the request, whatever zones could not be resolved and whatever calls
\* failed on the way.
C16_ExportContinues ==
    (/\ tool = "export"
     /\ Finished
     /\ ~args.all_zones
     /\ args.zones # <<>>) =>
        /\ status = "ok"
        /\ Range(RowZones) = Range(args.zones)
        /\ \A i, j \in 1..Len(RowZones) : i # j => RowZones[i] # RowZones[j]
        /\ \A i, j \in 1..Len(RowZones) :
              i < j => \E k \in 1..Len(args.zones) :
                          /\ args.zones[k] = RowZones[i]
                          /\ \A l \in 1..k : args.zones[l] # RowZones[j]

\* The step sends the provider a Create of a record of one of the types at
\* the apex of the zone the run works on.
SendsApexCreate(types) ==
    /\ Len(calls') = Len(calls) + 1
    /\ calls'[Len(calls')].kind = "Create"
    /\ calls'[Len(calls')].payload.type \in types
    /\ calls'[Len(calls')].payload.name = args.zone

\* C17: no run of enforce_standard, update_dns or update_pages_dns sends a
\* Create of an apex A or AAAA record while the zone holds an apex CNAME, nor
\* a Create of an apex CNAME while the zone holds an apex A or AAAA record.
C17_ApexConflictBlocksCreate ==
    [][(tool \in {"enforce", "dns", "pages"} /\ status = "running") =>
          /\ SendsApexCreate(AddressTypes) =>
                ByTypeName(zone, "CNAME", args.zone) = <<>>
          /\ SendsApexCreate({"CNAME"}) =>
                /\ ByTypeName(zone, "A", args.zone) = <<>>
                /\ ByTypeName(zone, "AAAA", args.zone) = <<>>]_vars

\* The snapshot holds a record with the type, resolved name and content of
\* the standard def, and its priority if it is an MX.
InSnapshot(def, z, records) ==
    \E i \in 1..Len(records) :
        /\ records[i].type = def.type
        /\ records[i].name = (IF def.name = "@" THEN z ELSE <<def.name>> \o z)
        /\ records[i].content = def.content
        /\ def.type = "MX" => records[i].priority = def.priority

\* The call carries what the standard def asks for.
CarriesStandard(call, def, z) ==
    /\ call.kind = "Create"
    /\ call.payload.type = def.type
    /\ call.payload.name = (IF def.name = "@" THEN z ELSE <<def.name>> \o z)
    /\ call.payload.content = def.content
    /\ def.type = "MX" => call.payload.priority = def.priority
    /\ def.type \in {"A", "CNAME"} => call.payload.proxied = def.proxied

\* C18: each pass of the standard run takes the next standard in the listed
\* order; it sends no call when the snapshot holds the record, and otherwise
\* sends, in apply mode, exactly one Create carrying the standard's type,
\* resolved name, content, priority (MX) and proxied flag (A, CNAME).
C18_StandardPlannerPolicy ==
    [][(tool = "enforce" /\ status = "running" /\ pc = "ensure") =>
          LET def == Standards(args.zone)[idx] IN
          /\ status' # "fail" => idx' = idx + 1
          /\ InSnapshot(def, args.zone, all_records) =>
                (calls' = calls /\ plan' = plan /\ zone' = zone)
          /\ (~InSnapshot(def, args.zone, all_records) /\ dry_run) =>
                (calls' = calls /\ zone' = zone)
          /\ (~InSnapshot(def, args.zone, all_records) /\ ~dry_run) =>
                /\ Len(calls') = Len(calls) + 1
                /\ SubSeq(calls', 1, Len(calls)) = calls
                /\ CarriesStandard(calls'[Len(calls')], def, args.zone)]_vars

\* No two CNAME records of z have the same name.
AtMostOneCname(z) ==
    \A i, j \in 1..Len(z) :
        (i # j /\ z[i].type = "CNAME" /\ z[j].type = "CNAME") => z[i].name # z[j].name

\* The operations of the current invocation on CNAME records at name n are
\* one Update of the record id and nothing else.
OnlyUpdates(n, id) ==
    LET Test(op) == op.kind # "Delete" /\ op.payload.type = "CNAME"
                    /\ op.payload.name = n
        ops == SelectSeq(Ops, Test)
    IN  Len(ops) = 1 /\ ops[1].kind = "Update" /\ ops[1].id = id

\* The zone the run started from holds exactly one CNAME at name n, and it
\* differs from the content, proxied flag or ttl asked for.
OneDiffering(n, content, proxied, ttl) ==
    LET found == ByTypeName(zone0, "CNAME", n)
    IN  /\ Len(found) = 1
        /\ \/ found[1].content # content
           \/ found[1].proxied # proxied
           \/ found[1].ttl # ttl

\* C19: zones that start with at most one CNAME at a name keep at most one,
\* and a completed run that ensures a CNAME at a name holding exactly one
\* CNAME that differs reports or sends one Update of that record and no
\* Create: enforce_standard's www CNAME, update_dns --type CNAME, and the www
\* CNAME of update_pages_dns --pages-host.
C19_SingleSlotUpdatedInPlace ==
    /\ AtMostOneCname(zone)
    /\ (tool = "enforce" /\ status = "ok"
        /\ OneDiffering(Www(args.zone), args.zone, FALSE, EnforceTtl)) =>
            OnlyUpdates(Www(args.zone), ByTypeName(zone0, "CNAME", Www(args.zone))[1].id)
    /\ (DnsEnsures({"CNAME"}) /\ status = "ok"
        /\ OneDiffering(DnsFullName(args), args.target, DnsProxied(args), DnsTtl)) =>
            OnlyUpdates(DnsFullName(args),
                        ByTypeName(zone0, "CNAME", DnsFullName(args))[1].id)
    /\ (tool = "pages" /\ status = "ok" /\ args = PagesWith({"pages_host"})
        /\ OneDiffering(Www(args.zone), args.pages_host, FALSE, PagesTtl)) =>
            OnlyUpdates(Www(args.zone), ByTypeName(zone0, "CNAME", Www(args.zone))[1].id)

\* C20: for a definition of type A, AAAA, MX or TXT, ensure_record reports
\* the record as existing, and neither sends nor reports a Create, exactly
\* when the snapshot holds a record of the type and resolved name with the
\* desired content (and priority, for MX), at whatever position.
C20_MultiValueClassification ==
    (/\ tool = "ensure"
     /\ Finished
     /\ args.def.type \in {"A", "AAAA", "MX", "TXT"}) =>
        (InSnapshot(args.def, args.zone, all_records)
            <=> (reported # <<>> /\ calls = <<>> /\ plan = <<>>))

----------------------------------------------------------------------------
(* A CNAME ensure after a standard run *)

\* The command lines of update_dns and update_pages_dns that ensure a CNAME.
CnameCommands ==
    {c \in DnsCommands : c.args \in DnsUpdateArgs /\ c.args.type = "CNAME"}
    \cup {c \in PagesCommands :
            c.args.pages_host # <<>> \/ c.args.set_www_cname # <<>>}

\* The operator runs a CNAME ensure on the zone a run of enforce_standard
\* left behind.
StartCnameEnsure ==
    /\ Finished
    /\ tool = "enforce"
    /\ runs < MaxRuns
    /\ \E c \in CnameCommands, d \in BOOLEAN : Fresh(c.tool, c.args, d)
    /\ pc' = "zone"
    /\ prev' = Summary
    /\ UNCHANGED provider

NextCname ==
    \/ StartEnforce
    \/ StartCnameEnsure
    \/ ResolveZone
    \/ FetchPage
    \/ EnsureRecord
    \/ UpdateOrCreate
    \/ PagesSection
    \/ IssueCall

SpecCname == Init /\ [][NextCname]_vars

\* The current invocation ensures a CNAME: update_dns --type CNAME, or
\* update_pages_dns with --pages-host or --set-www-cname (the www CNAME).
CnameEnsure ==
    \/ DnsEnsures({"CNAME"})
    \/ /\ tool = "pages"
       /\ status # "idle"
       /\ args.pages_host # <<>> \/ args.set_www_cname # <<>>

\* The name whose CNAME the invocation ensures.
CnameTarget == IF tool = "dns" THEN DnsFullName(args) ELSE Www(args.zone)

\* C21: a CNAME ensure that starts on a zone holding more than one CNAME at
\* the target name reports or sends no Delete of any of them and no Update of
\* any but the first listed, and leaves every other one in the zone as it
\* was.
C21_OnlyFirstDuplicateTouched ==
    (CnameEnsure /\ Len(ByTypeName(zone0, "CNAME", CnameTarget)) > 1) =>
        LET found == ByTypeName(zone0, "CNAME", CnameTarget)
        IN  /\ \A i \in 1..Len(Ops) :
                  Ops[i].id \in IdsOf(found) =>
                      (Ops[i].kind = "Update" /\ Ops[i].id = found[1].id)
            /\ \A k \in 2..Len(found) : \E j \in 1..Len(zone) : zone[j] = found[k]

\* C22: in an apply run of enforce_standard, update_dns or update_pages_dns
\* the step on which a provider call fails ends the run with a failure
\* status and leaves the zone and the calls sent before it as they were; no
\* call of the run comes after a failed one, and a failed run takes no
\* further step: the next step is a new invocation, which finds the zone as
\* the failed run left it.
C22_FailFast ==
    [][(tool \in {"enforce", "dns", "pages"} /\ ~dry_run /\ status # "idle") =>
          /\ (status = "running" /\ CallFailed) =>
                /\ status' = "fail"
                /\ zone' = zone
                /\ Len(calls') \in {Len(calls), Len(calls) + 1}
                /\ SubSeq(calls', 1, Len(calls)) = calls
          /\ status = "running" =>
                \A i \in 1..(Len(calls') - 1) : calls'[i].ok
          /\ status = "fail" =>
                /\ runs' = runs + 1
                /\ zone' = zone
                /\ prev'.calls = calls]_vars

\* An apply run of update_pages_dns failed on its second call: the first
\* call stays applied and the operations decided after the failed one were
\* never sent.
C22_Witness ==
    /\ tool = "pages"
    /\ ~dry_run
    /\ status = "fail"
    /\ Len(calls) = 2
    /\ calls[1].ok
    /\ ~calls[2].ok
    /\ Len(todo) >= 2
    /\ zone # zone0

\* The step sends the provider a record call: a listing, or a create, update
\* or delete.
RecordCall == requested' # requested \/ calls' # calls

----------------------------------------------------------------------------
(* Listings by type or name on zones of about one provider page *)

HostLabels == <<"a", "b", "c", "d", "e", "f", "g", "h", "i", "j", "k">>

\* The i-th host name under the zone, outside every keep-list.
HostNo(i) ==
    <<HostLabels[(i \div Len(HostLabels)) + 1],
      HostLabels[(i % Len(HostLabels)) + 1], "hosts">> \o Zone

\* A zone of n records of one type, each at a host name of its own.
HostZone(n, type) ==
    [i \in 1..n |-> Rec(i, type, HostNo(i), OldHost, 300, NoPriority, FALSE)]

FilteredSizes == {DefaultPerPage - 1, DefaultPerPage, DefaultPerPage + 1}

FilteredZones ==
    {HostZone(n, t) : n \in FilteredSizes, t \in {"A", "CNAME"}}
    \cup {BulkZone(n) : n \in FilteredSizes}

InitFiltered ==
    /\ zone \in FilteredZones
    /\ nextId = Len(zone) + 1
    /\ Idle

\* The commands that list by type or by name: the two purges of
\* update_pages_dns and update_dns --search.
FilteredCommands ==
    {[tool |-> "pages", args |-> PagesWith({f})] :
        f \in {"purge_a_and_cname", "purge_other_cnames"}}
    \cup {[tool |-> "dns",
           args |-> [DnsBase EXCEPT !.search = TRUE, !.name = "@", !.type = "TXT"]]}

StartFiltered ==
    /\ status = "idle"
    /\ runs < MaxRuns
    /\ \E c \in FilteredCommands, d \in BOOLEAN : Fresh(c.tool, c.args, d)
    /\ pc' = "zone"
    /\ prev' = NoSummary
    /\ UNCHANGED provider

NextFiltered ==
    \/ StartFiltered
    \/ StartExport
    \/ ResolveZone
    \/ PagesSection
    \/ SearchRecords
    \/ IssueCall
    \/ ExportLoad
    \/ ExportZone

SpecFiltered == InitFiltered /\ [][NextFiltered]_vars

\* C24: with no failed call, a completed apply run of --purge-a-and-cname
\* leaves no A or CNAME record outside the keep-list, one of
\* --purge-other-cnames no CNAME other than the apex and www ones;
\* update_dns --search reports every record of the type at the name; and the
\* export row of a zone counts every A and CNAME record outside the apex
\* (and www) names.
C24_FilteredListingsComplete ==
    /\ (tool = "pages" /\ ~dry_run /\ status = "ok" /\ faults = 0) =>
          /\ args.purge_a_and_cname =>
                \A i \in 1..Len(zone) :
                    zone[i].type \in {"A", "CNAME"} => zone[i].name \in KeepNames(args)
          /\ args.purge_other_cnames =>
                \A i \in 1..Len(zone) :
                    zone[i].type = "CNAME" => zone[i].name \in {args.zone, Www(args.zone)}
    /\ (tool = "dns" /\ args.search /\ status = "ok") =>
          reported = MapIds(ByTypeName(zone0, args.type, DnsFullName(args)))
    /\ (tool = "export" /\ status = "ok" /\ faults = 0) =>
          \A i \in 1..Len(reported) :
              reported[i].zone \in Zones =>
                  /\ reported[i].other_a_count = CountOutside(ByType(zone, "A"), {Zone})
                  /\ reported[i].other_cname_count
                        = CountOutside(ByType(zone, "CNAME"), {Zone, Www(Zone)})

----------------------------------------------------------------------------
(* admin_dns_agent.py *)

ZoneAddWorkflow == "cloudflare-zone-add.yml"
DnsWorkflow == "cloudflare-dns.yml"

\* parse_args: --domain, --pages-host (required), --apply
AgentArgs ==
    {[zone |-> d, pages_host |-> PagesHost, apply |-> a] :
        d \in Domains, a \in BOOLEAN}

\* The operator runs the agent.
StartAgent ==
    /\ status = "idle"
    /\ runs < MaxRuns
    /\ \E a \in AgentArgs : Fresh("agent", a, ~a.apply)
    /\ pc' = "agent"
    /\ prev' = NoSummary
    /\ UNCHANGED provider

\* main, lines 82-101: the workflow main asks gh to run, given exists
AgentWorkflow(exists) == IF exists THEN DnsWorkflow ELSE ZoneAddWorkflow

\* main, lines 71-101.  A failed lookup makes cf_get raise SystemExit, which
\* main catches: it prints the message and goes on with exists = False.  gh
\* then dispatches the workflow (rc = 0) or fails to (SystemExit).
AgentMain ==
    /\ status = "running"
    /\ tool = "agent"
    /\ pc = "agent"
    /\ \E exists \in BOOLEAN, rc \in {0, 1} :
          /\ \/ /\ CanFault
                /\ faults' = faults + 1
                /\ exists = FALSE
             \/ /\ exists = (args.zone \in Zones)
                /\ UNCHANGED faults
          /\ reported' = <<AgentWorkflow(exists)>>
          /\ status' = IF rc = 0 THEN "ok" ELSE "fail"
    /\ pc' = "done"
    /\ UNCHANGED <<zone, nextId, runs, tool, args, dry_run, zone0, listing, idx,
                   changes_needed, todo, calls, plan, prev, peer>>

NextAgent ==
    \/ StartAgent
    \/ AgentMain
    \/ StartRun
    \/ ResolveZone
    \/ FetchPage
    \/ EnsureRecord
    \/ DeleteDnsRecord
    \/ SearchRecords
    \/ UpdateOrCreate
    \/ PagesSection
    \/ IssueCall

SpecAgent == Init /\ [][NextAgent]_vars

\* C25: the step on which the zone lookup of a tool fails ends the run in
\* failure, and the step of admin_dns_agent that asks for the zone-add
\* workflow is one whose lookup succeeded and found no zone.
C25_LookupErrorsSurface ==
    [][(status = "running" /\ pc \in {"zone", "agent"}) =>
          /\ faults' > faults => status' = "fail"
          /\ (tool = "agent" /\ reported' = <<ZoneAddWorkflow>>) =>
                (faults' = faults /\ args.zone \notin Zones)]_vars

----------------------------------------------------------------------------
(* Two processes of enforce_standard on one zone *)

\* A second enforce_standard --zone <the same zone>, in apply mode, is
\* started and resolves the zone.
PeerStart ==
    /\ tool = "enforce"
    /\ ~dry_run
    /\ status # "idle"
    /\ args.zone \in Zones
    /\ peer.pc = "none"
    /\ peer' = [peer EXCEPT !.pc = "list"]
    /\ UNCHANGED <<zone, nextId, faults, runs, tool, args, dry_run, pc, status,
                   zone0, page, requested, all_records, idx, changes_needed,
                   todo, calls, plan, reported, prev>>

\* get_all_records of the second process (the zones here fit one page)
PeerFetch ==
    /\ peer.pc = "list"
    /\ TotalPages(zone, PerPage) <= 1
    /\ peer' = [peer EXCEPT !.pc = "ensure", !.all_records = PageOf(zone, PerPage, 1)]
    /\ UNCHANGED <<zone, nextId, faults, runs, tool, args, dry_run, pc, status,
                   zone0, page, requested, all_records, idx, changes_needed,
                   todo, calls, plan, reported, prev>>

\* enforce_standard, lines 164-166, of the second process: the zone after
\* the passes k.. of its loop over the snapshot records, ensure_record
\* included; a refused create raises and ends the process.
RECURSIVE PeerPasses(_, _, _, _, _)
PeerPasses(z, id, k, name, records) ==
    IF k > Len(Standards(name)) THEN z
    ELSE LET def == Standards(name)[k]
             op == EnsureOp(def, name, records)
         IN  IF AlreadyExists(def, name, records)
             THEN PeerPasses(z, id, k + 1, name, records)
             ELSE IF Accepts(z, op)
             THEN PeerPasses(Applied(z, id, op), id + 1, k + 1, name, records)
             ELSE z

\* The loop of the second process, its creates taken together.
PeerEnsure ==
    /\ peer.pc = "ensure"
    /\ zone' = PeerPasses(zone, nextId, 1, args.zone, peer.all_records)
    /\ nextId' = nextId + (Len(zone') - Len(zone))
    /\ peer' = [peer EXCEPT !.pc = "done"]
    /\ UNCHANGED <<faults, runs, tool, args, dry_run, pc, status, zone0, page,
                   requested, all_records, idx, changes_needed, todo, calls,
                   plan, reported, prev>>

NextRace ==
    \/ StartEnforce
    \/ ResolveZone
    \/ FetchPage
    \/ EnsureRecord
    \/ PeerStart
    \/ PeerFetch
    \/ PeerEnsure

SpecRace == Init /\ [][NextRace]_vars

\* Two records of z have the same type, name, content and priority.
Twins(z) ==
    \E i, j \in 1..Len(z) :
        /\ i # j
        /\ z[i].type = z[j].type
        /\ z[i].name = z[j].name
        /\ z[i].content = z[j].content
        /\ z[i].priority = z[j].priority

\* C26: as long as the runs of enforce_standard on a zone come one after the
\* other (no second process has run beside them), the zone holds no two
\* records of the same type, name, content and priority.
C26_SerializedRunsNoTwins ==
    (tool = "enforce" /\ status # "idle" /\ peer.pc = "none") => ~Twins(zone)

\* C27: a completed apply run of update_pages_dns with --set-github-aaaa and
\* without --set-github-a, --set-apex-a and --replace-apex leaves the apex A
\* records as they were and the zone holding the four GitHub Pages AAAA
\* records at the apex.
C27_GithubAaaaKeepsApexA ==
    (/\ tool = "pages"
     /\ ~dry_run
     /\ status = "ok"
     /\ args.set_github_aaaa
     /\ ~args.set_github_a
     /\ args.set_apex_a = <<>>
     /\ ~args.replace_apex) =>
        /\ ByTypeName(zone, "A", args.zone) = ByTypeName(zone0, "A", args.zone)
        /\ \A k \in 1..Len(GithubIpv6) :
              \E i \in 1..Len(zone) :
                  /\ zone[i].type = "AAAA"
                  /\ zone[i].name = args.zone
                  /\ zone[i].content = GithubIpv6[k]

----------------------------------------------------------------------------
(* The audit after a standard run *)

\* The operator audits the zone a run of enforce_standard worked on.
StartAuditAfter ==
    /\ Finished
    /\ tool = "enforce"
    /\ runs < MaxRuns
    /\ Fresh("audit", [zone |-> args.zone], TRUE)
    /\ pc' = "zone"
    /\ prev' = Summary
    /\ UNCHANGED provider

NextAudit ==
    \/ StartEnforce
    \/ StartAuditAfter
    \/ ResolveZone
    \/ FetchPage
    \/ EnsureRecord
    \/ AuditZone

SpecAudit == Init /\ [][NextAudit]_vars

\* The current invocation audits the zone right after an apply run of
\* enforce_standard that completed.
AuditAfterEnforce ==
    /\ tool = "audit"
    /\ prev.tool = "enforce"
    /\ ~prev.dry_run
    /\ prev.status = "ok"

\* C28: the audit of a zone on which an apply run of enforce_standard has
\* just completed finds no issue in the records it lists and, once it holds
\* them, returns 0.
C28_EnforceThenAudit ==
    AuditAfterEnforce =>
        /\ pc = "audit" => AuditIssues(all_records, args.zone) = {}
        /\ Finished => changes_needed = 0
        /\ (Finished /\ all_records = zone) => (status = "ok" /\ reported = {})

\* The audit returned 0 on a zone that held a non-standard apex A record and
\* an MX of another priority before the standard run added its records.
C28_Witness ==
    /\ AuditAfterEnforce
    /\ status = "ok"
    /\ all_records = zone
    /\ Len(prev.calls) >= 7
    /\ \E i \in 1..Len(prev.zone0) :
          prev.zone0[i].type = "A" /\ prev.zone0[i].content = OtherIp
    /\ \E i \in 1..Len(prev.zone0) :
          prev.zone0[i].type = "MX" /\ prev.zone0[i].priority # 0

----------------------------------------------------------------------------
(* The purges of update_pages_dns on zones with records to keep *)

Staging(z) == <<"staging">> \o z

PurgeCatalog ==
    << [type |-> "A", name |-> Zone, content |-> GithubIps[1]],
       [type |-> "CNAME", name |-> Www(Zone), content |-> OldHost],
       [type |-> "A", name |-> Staging(Zone), content |-> OtherIp],
       [type |-> "CNAME", name |-> Staging(Zone), content |-> OldHost],
       [type |-> "A", name |-> <<"old">> \o Zone, content |-> OtherIp],
       [type |-> "CNAME", name |-> <<"shop">> \o Zone, content |-> OldHost],
       [type |-> "AAAA", name |-> <<"old">> \o Zone, content |-> GithubIpv6[1]],
       [type |-> "TXT", name |-> <<"_dmarc">> \o Zone, content |-> DmarcTxt],
       [type |-> "MX", name |-> <<"mail">> \o Zone, content |-> M365Mx] >>

PurgeZones ==
    {[i \in 1..Len(p) |->
         LET c == PurgeCatalog[p[i]]
         IN  Rec(i, c.type, c.name, c.content, 300,
                 IF c.type = "MX" THEN DefaultPriority ELSE NoPriority, FALSE)] :
     p \in {q \in UNION {[1..n -> 1..Len(PurgeCatalog)] : n \in 0..MaxInit} :
               \A i, j \in 1..Len(q) : i # j => q[i] # q[j]}}

InitPurge ==
    /\ zone \in {z \in PurgeZones : Consistent(z)}
    /\ nextId = Len(zone) + 1
    /\ Idle

PurgeCommands ==
    {c \in PagesCommands : c.args.purge_a_and_cname \/ c.args.purge_other_cnames}

StartPurge == Start(PurgeCommands)

NextPurge == StartPurge \/ ResolveZone \/ PagesSection \/ IssueCall

SpecPurge == InitPurge /\ [][NextPurge]_vars

PurgeSections == {"purge_other_cnames", "purge_a", "purge_cname"}

\* C29: every operation a purge block of update_pages_dns decides on
\* (reports under dry-run, sends otherwise) is the Delete of a record the
\* zone holds, of the type the block names (A or CNAME for
\* --purge-a-and-cname, CNAME for --purge-other-cnames) and of a name outside
\* its keep-list (apex, www and staging, respectively apex and www).
C29_PurgeKeepList ==
    [][(tool = "pages" /\ status = "running" /\ pc \in PurgeSections /\ todo = <<>>) =>
          LET decided == IF dry_run THEN SubSeq(plan', Len(plan) + 1, Len(plan'))
                         ELSE todo'
              keep == IF pc = "purge_other_cnames"
                      THEN {args.zone, Www(args.zone)}
                      ELSE {args.zone, Www(args.zone), Staging(args.zone)}
              type == IF pc = "purge_a" THEN "A" ELSE "CNAME"
          IN  \A i \in 1..Len(decided) :
                  /\ decided[i].kind = "Delete"
                  /\ \E j \in 1..Len(zone) :
                        /\ zone[j].id = decided[i].id
                        /\ zone[j].type = type
                        /\ zone[j].name \notin keep]_vars

\* An apply run of --purge-a-and-cname alone completed on a zone that held
\* an A record at the staging host and one at another host: it deleted the
\* second and kept the first.
C29_Witness ==
    /\ tool = "pages"
    /\ args = PagesWith({"purge_a_and_cname"})
    /\ ~dry_run
    /\ status = "ok"
    /\ Len(zone0) = 2
    /\ zone0[1].type = "A"
    /\ zone0[1].name = Staging(args.zone)
    /\ zone0[2].type = "A"
    /\ zone0[2].name \notin KeepNames(args)
    /\ zone = <<zone0[1]>>
    /\ Len(calls) = 1

\* The operation is the Create of the k-th standard of the zone z.
CreatesStandard(op, k, z) ==
    /\ op.kind = "Create"
    /\ op.payload.type = Standards(z)[k].type
    /\ op.payload.name = FullName(Standards(z)[k].name, z)
    /\ op.payload.content = Standards(z)[k].content

\* The operations ops are Creates of standards of the zone z, each of
\* another standard and in the order of the list.
CreatesOfStandards(ops, z) ==
    LET N == Len(Standards(z))
        At(i) == CHOOSE k \in 1..N : CreatesStandard(ops[i], k, z)
    IN  /\ \A i \in 1..Len(ops) : \E k \in 1..N : CreatesStandard(ops[i], k, z)
        /\ \A i, j \in 1..Len(ops) : i < j => At(i) < At(j)

\* C30: the change count of a run of enforce_standard is between 0 and 8 and
\* the operations it reports or sends are Creates of distinct standards; and
\* when a dry run and the apply run of the same command on the same zone
\* state both complete, the count of the dry run is the number of Creates the
\* apply run sent, which are the Creates the dry run reported.
C30_ChangeCount ==
    (tool = "enforce" /\ status # "idle") =>
        /\ changes_needed \in 0..Len(Standards(args.zone))
        /\ CreatesOfStandards(Ops, args.zone)
        /\ status = "ok" => changes_needed = Len(Ops)
        /\ (ApplyAfterPreview /\ status = "ok" /\ prev.status = "ok") =>
              /\ prev.changes_needed = Len(calls)
              /\ changes_needed = prev.changes_needed
              /\ Strip(calls) = prev.plan
              /\ \A i \in 1..Len(calls) : calls[i].ok

\* The dry run counted seven changes on a zone that held one of the GitHub
\* apex A records, and the apply run sent those seven Creates.
C30_Witness ==
    /\ tool = "enforce"
    /\ ApplyAfterPreview
    /\ status = "ok"
    /\ prev.status = "ok"
    /\ prev.changes_needed = 7
    /\ Len(calls) = 7
    /\ \E i \in 1..Len(zone0) : zone0[i].type = "A" /\ zone0[i].content = GithubIps[1]

====
